---- MODULE Spec2Model ----
(***************************************************************************)
(* Model of src/main.py: the Yelp crawler.                                 *)
(*                                                                         *)
(*   parse_search, parse_company      field extraction (pure operators)   *)
(*   search_yelp, scrape_reviews      paginated fetch-and-merge            *)
(*   scrape_companies_by_search, run  search, then business details, then *)
(*                                    one JSON print                       *)
(*                                                                         *)
(* Text is a tuple of character codes (" Mon" is <<32,77,111,110>>), so    *)
(* that str.strip and str.lower are computed, not assumed.  A URL of a     *)
(* paginated endpoint is represented by its start offset: for a fixed      *)
(* keyword/location (or business id) it is the only part that varies.      *)
(* The Fetch Client (scrapfly) is the environment: it answers each request *)
(* with a document or a failure, and yields the results of a batch in any  *)
(* order, each request once.                                               *)
(***************************************************************************)
EXTENDS Integers, Sequences, FiniteSets

VARIABLES
    op,            \* entry point being run: "run", "scrape_reviews", "parse_company"
    pc,            \* position in that entry point
    total,         \* search_meta["totalResults"] / total_reviews; -1 before the first page
    first_recs,    \* history: the records parsed from the first page
    other_urls,    \* search_yelp: offsets of the batch handed to concurrent_scrape
    to_scrape,     \* scrape_reviews: offsets of the batch handed to concurrent_scrape
    pending,       \* indices of the current batch not yet yielded by concurrent_scrape
    yielded,       \* history: the subsequent pages in the order they were yielded
    businesses,    \* search_yelp: the accumulated list
    reviews,       \* scrape_reviews: the accumulated list
    business_id,   \* scrape_reviews: the id read from the business page
    company_urls,  \* scrape_companies_by_search: the detail urls
    results,       \* _scrape_companies_by_url: the parsed companies
    printed,       \* what was printed so far (lines 116 and 134)
    fetch_log,     \* history: every request handed to the Fetch Client, in order
    fault,         \* history: the first failed fetch / search page without pagination
    doc,           \* parse_company: the document given
    parsed         \* parse_company: its outcome

vars == << op, pc, total, first_recs, other_urls, to_scrape, pending, yielded,
           businesses, reviews, business_id, company_urls, results, printed,
           fetch_log, fault, doc, parsed >>

(***************************************************************************)
(* Bounds of the model.                                                    *)
(***************************************************************************)
\* largest totalResults a first page reports
MaxTotal == 25
\* largest number of day-of-the-week rows in a business document
MaxRows == 2

(***************************************************************************)
(* Text: str.strip, str.lower, "".join, and the selector's get / getall.   *)
(***************************************************************************)
\* the value None
None == << -1 >>
\* the outcome of a statement that raised (AttributeError on None.strip())
Raised == << -2 >>

\* characters str.strip() removes, the Unicode white space: \t \n \v \f \r,
\* \x1c..\x1f, the space, U+0085, U+00A0, U+1680, U+2000..U+200A, U+2028, U+2029,
\* U+202F, U+205F, U+3000
IsSpace(c) ==
    \/ c \in {9, 10, 11, 12, 13, 28, 29, 30, 31, 32, 133, 160, 5760}
    \/ c \in 8192..8202
    \/ c \in {8232, 8233, 8239, 8287, 12288}

RECURSIVE LStrip(_)
LStrip(s) == IF s # << >> /\ IsSpace(Head(s)) THEN LStrip(Tail(s)) ELSE s

RECURSIVE RStrip(_)
RStrip(s) ==
    IF s # << >> /\ IsSpace(s[Len(s)]) THEN RStrip(SubSeq(s, 1, Len(s) - 1)) ELSE s

\* s.strip()
Strip(s) == RStrip(LStrip(s))

\* str.lower outside ASCII: <<first, last, stride, delta>>, a character c of a run
\* (first <= c <= last, c - first a multiple of stride) maps to c + delta
LowerRuns ==
    { <<192, 214, 1, 32>>, <<216, 222, 1, 32>>, <<256, 302, 2, 1>>, <<306, 310, 2, 1>>,
      <<313, 327, 2, 1>>, <<330, 374, 2, 1>>, <<376, 376, 1, -121>>, <<377, 381, 2, 1>>,
      <<385, 385, 1, 210>>, <<386, 388, 2, 1>>, <<390, 390, 1, 206>>, <<391, 391, 1, 1>>,
      <<393, 394, 1, 205>>, <<395, 395, 1, 1>>, <<398, 398, 1, 79>>, <<399, 399, 1, 202>>,
      <<400, 400, 1, 203>>, <<401, 401, 1, 1>>, <<403, 403, 1, 205>>, <<404, 404, 1,
      207>>, <<406, 406, 1, 211>>, <<407, 407, 1, 209>>, <<408, 408, 1, 1>>, <<412, 412,
      1, 211>>, <<413, 413, 1, 213>>, <<415, 415, 1, 214>>, <<416, 420, 2, 1>>, <<422,
      422, 1, 218>>, <<423, 423, 1, 1>>, <<425, 425, 1, 218>>, <<428, 428, 1, 1>>, <<430,
      430, 1, 218>>, <<431, 431, 1, 1>>, <<433, 434, 1, 217>>, <<435, 437, 2, 1>>, <<439,
      439, 1, 219>>, <<440, 440, 1, 1>>, <<444, 444, 1, 1>>, <<452, 452, 1, 2>>, <<453,
      453, 1, 1>>, <<455, 455, 1, 2>>, <<456, 456, 1, 1>>, <<458, 458, 1, 2>>, <<459, 475,
      2, 1>>, <<478, 494, 2, 1>>, <<497, 497, 1, 2>>, <<498, 500, 2, 1>>, <<502, 502, 1,
      -97>>, <<503, 503, 1, -56>>, <<504, 542, 2, 1>>, <<544, 544, 1, -130>>, <<546, 562,
      2, 1>>, <<570, 570, 1, 10795>>, <<571, 571, 1, 1>>, <<573, 573, 1, -163>>, <<574,
      574, 1, 10792>>, <<577, 577, 1, 1>>, <<579, 579, 1, -195>>, <<580, 580, 1, 69>>,
      <<581, 581, 1, 71>>, <<582, 590, 2, 1>>, <<880, 882, 2, 1>>, <<886, 886, 1, 1>>,
      <<895, 895, 1, 116>>, <<902, 902, 1, 38>>, <<904, 906, 1, 37>>, <<908, 908, 1, 64>>,
      <<910, 911, 1, 63>>, <<913, 929, 1, 32>>, <<932, 939, 1, 32>>, <<975, 975, 1, 8>>,
      <<984, 1006, 2, 1>>, <<1012, 1012, 1, -60>>, <<1015, 1015, 1, 1>>, <<1017, 1017, 1,
      -7>>, <<1018, 1018, 1, 1>>, <<1021, 1023, 1, -130>>, <<1024, 1039, 1, 80>>, <<1040,
      1071, 1, 32>>, <<1120, 1152, 2, 1>>, <<1162, 1214, 2, 1>>, <<1216, 1216, 1, 15>>,
      <<1217, 1229, 2, 1>>, <<1232, 1326, 2, 1>>, <<1329, 1366, 1, 48>>, <<4256, 4293, 1,
      7264>>, <<4295, 4295, 1, 7264>>, <<4301, 4301, 1, 7264>>, <<5024, 5103, 1, 38864>>,
      <<5104, 5109, 1, 8>>, <<7312, 7354, 1, -3008>>, <<7357, 7359, 1, -3008>>, <<7680,
      7828, 2, 1>>, <<7838, 7838, 1, -7615>>, <<7840, 7934, 2, 1>>, <<7944, 7951, 1, -8>>,
      <<7960, 7965, 1, -8>>, <<7976, 7983, 1, -8>>, <<7992, 7999, 1, -8>>, <<8008, 8013,
      1, -8>>, <<8025, 8031, 2, -8>>, <<8040, 8047, 1, -8>>, <<8072, 8079, 1, -8>>,
      <<8088, 8095, 1, -8>>, <<8104, 8111, 1, -8>>, <<8120, 8121, 1, -8>>, <<8122, 8123,
      1, -74>>, <<8124, 8124, 1, -9>>, <<8136, 8139, 1, -86>>, <<8140, 8140, 1, -9>>,
      <<8152, 8153, 1, -8>>, <<8154, 8155, 1, -100>>, <<8168, 8169, 1, -8>>, <<8170, 8171,
      1, -112>>, <<8172, 8172, 1, -7>>, <<8184, 8185, 1, -128>>, <<8186, 8187, 1, -126>>,
      <<8188, 8188, 1, -9>>, <<8486, 8486, 1, -7517>>, <<8490, 8490, 1, -8383>>, <<8491,
      8491, 1, -8262>>, <<8498, 8498, 1, 28>>, <<8544, 8559, 1, 16>>, <<8579, 8579, 1,
      1>>, <<9398, 9423, 1, 26>>, <<11264, 11311, 1, 48>>, <<11360, 11360, 1, 1>>,
      <<11362, 11362, 1, -10743>>, <<11363, 11363, 1, -3814>>, <<11364, 11364, 1,
      -10727>>, <<11367, 11371, 2, 1>>, <<11373, 11373, 1, -10780>>, <<11374, 11374, 1,
      -10749>>, <<11375, 11375, 1, -10783>>, <<11376, 11376, 1, -10782>>, <<11378, 11378,
      1, 1>>, <<11381, 11381, 1, 1>>, <<11390, 11391, 1, -10815>>, <<11392, 11490, 2, 1>>,
      <<11499, 11501, 2, 1>>, <<11506, 11506, 1, 1>>, <<42560, 42604, 2, 1>>, <<42624,
      42650, 2, 1>>, <<42786, 42798, 2, 1>>, <<42802, 42862, 2, 1>>, <<42873, 42875, 2,
      1>>, <<42877, 42877, 1, -35332>>, <<42878, 42886, 2, 1>>, <<42891, 42891, 1, 1>>,
      <<42893, 42893, 1, -42280>>, <<42896, 42898, 2, 1>>, <<42902, 42920, 2, 1>>,
      <<42922, 42922, 1, -42308>>, <<42923, 42923, 1, -42319>>, <<42924, 42924, 1,
      -42315>>, <<42925, 42925, 1, -42305>>, <<42926, 42926, 1, -42308>>, <<42928, 42928,
      1, -42258>>, <<42929, 42929, 1, -42282>>, <<42930, 42930, 1, -42261>>, <<42931,
      42931, 1, 928>>, <<42932, 42946, 2, 1>>, <<42948, 42948, 1, -48>>, <<42949, 42949,
      1, -42307>>, <<42950, 42950, 1, -35384>>, <<42951, 42953, 2, 1>>, <<42960, 42960, 1,
      1>>, <<42966, 42968, 2, 1>>, <<42997, 42997, 1, 1>>, <<65313, 65338, 1, 32>>,
      <<66560, 66599, 1, 40>>, <<66736, 66771, 1, 40>>, <<66928, 66938, 1, 39>>, <<66940,
      66954, 1, 39>>, <<66956, 66962, 1, 39>>, <<66964, 66965, 1, 39>>, <<68736, 68786, 1,
      64>>, <<71840, 71871, 1, 32>>, <<93760, 93791, 1, 32>>, <<125184, 125217, 1, 34>> }

\* <<first, last>> ranges of the cased characters that are not case-ignorable
CasedRanges ==
    { <<65, 90>>, <<97, 122>>, <<170, 170>>, <<181, 181>>, <<186, 186>>, <<192, 214>>,
      <<216, 246>>, <<248, 442>>, <<444, 447>>, <<452, 659>>, <<661, 687>>, <<880, 883>>,
      <<886, 887>>, <<891, 893>>, <<895, 895>>, <<902, 902>>, <<904, 906>>, <<908, 908>>,
      <<910, 929>>, <<931, 1013>>, <<1015, 1153>>, <<1162, 1327>>, <<1329, 1366>>, <<1376,
      1416>>, <<4256, 4293>>, <<4295, 4295>>, <<4301, 4301>>, <<4304, 4346>>, <<4349,
      4351>>, <<5024, 5109>>, <<5112, 5117>>, <<7296, 7304>>, <<7312, 7354>>, <<7357,
      7359>>, <<7424, 7467>>, <<7531, 7543>>, <<7545, 7578>>, <<7680, 7957>>, <<7960,
      7965>>, <<7968, 8005>>, <<8008, 8013>>, <<8016, 8023>>, <<8025, 8025>>, <<8027,
      8027>>, <<8029, 8029>>, <<8031, 8061>>, <<8064, 8116>>, <<8118, 8124>>, <<8126,
      8126>>, <<8130, 8132>>, <<8134, 8140>>, <<8144, 8147>>, <<8150, 8155>>, <<8160,
      8172>>, <<8178, 8180>>, <<8182, 8188>>, <<8450, 8450>>, <<8455, 8455>>, <<8458,
      8467>>, <<8469, 8469>>, <<8473, 8477>>, <<8484, 8484>>, <<8486, 8486>>, <<8488,
      8488>>, <<8490, 8493>>, <<8495, 8500>>, <<8505, 8505>>, <<8508, 8511>>, <<8517,
      8521>>, <<8526, 8526>>, <<8544, 8575>>, <<8579, 8580>>, <<9398, 9449>>, <<11264,
      11387>>, <<11390, 11492>>, <<11499, 11502>>, <<11506, 11507>>, <<11520, 11557>>,
      <<11559, 11559>>, <<11565, 11565>>, <<42560, 42605>>, <<42624, 42651>>, <<42786,
      42863>>, <<42865, 42887>>, <<42891, 42894>>, <<42896, 42954>>, <<42960, 42961>>,
      <<42963, 42963>>, <<42965, 42969>>, <<42997, 42998>>, <<43002, 43002>>, <<43824,
      43866>>, <<43872, 43880>>, <<43888, 43967>>, <<64256, 64262>>, <<64275, 64279>>,
      <<65313, 65338>>, <<65345, 65370>>, <<66560, 66639>>, <<66736, 66771>>, <<66776,
      66811>>, <<66928, 66938>>, <<66940, 66954>>, <<66956, 66962>>, <<66964, 66965>>,
      <<66967, 66977>>, <<66979, 66993>>, <<66995, 67001>>, <<67003, 67004>>, <<68736,
      68786>>, <<68800, 68850>>, <<71840, 71903>>, <<93760, 93823>>, <<119808, 119892>>,
      <<119894, 119964>>, <<119966, 119967>>, <<119970, 119970>>, <<119973, 119974>>,
      <<119977, 119980>>, <<119982, 119993>>, <<119995, 119995>>, <<119997, 120003>>,
      <<120005, 120069>>, <<120071, 120074>>, <<120077, 120084>>, <<120086, 120092>>,
      <<120094, 120121>>, <<120123, 120126>>, <<120128, 120132>>, <<120134, 120134>>,
      <<120138, 120144>>, <<120146, 120485>>, <<120488, 120512>>, <<120514, 120538>>,
      <<120540, 120570>>, <<120572, 120596>>, <<120598, 120628>>, <<120630, 120654>>,
      <<120656, 120686>>, <<120688, 120712>>, <<120714, 120744>>, <<120746, 120770>>,
      <<120772, 120779>>, <<122624, 122633>>, <<122635, 122654>>, <<125184, 125251>>,
      <<127280, 127305>>, <<127312, 127337>>, <<127344, 127369>> }

\* <<first, last>> ranges of the case-ignorable characters
CaseIgnorableRanges ==
    { <<39, 39>>, <<46, 46>>, <<58, 58>>, <<94, 94>>, <<96, 96>>, <<168, 168>>, <<173,
      173>>, <<175, 175>>, <<180, 180>>, <<183, 184>>, <<688, 879>>, <<884, 885>>, <<890,
      890>>, <<900, 901>>, <<903, 903>>, <<1155, 1161>>, <<1369, 1369>>, <<1375, 1375>>,
      <<1425, 1469>>, <<1471, 1471>>, <<1473, 1474>>, <<1476, 1477>>, <<1479, 1479>>,
      <<1524, 1524>>, <<1536, 1541>>, <<1552, 1562>>, <<1564, 1564>>, <<1600, 1600>>,
      <<1611, 1631>>, <<1648, 1648>>, <<1750, 1757>>, <<1759, 1768>>, <<1770, 1773>>,
      <<1807, 1807>>, <<1809, 1809>>, <<1840, 1866>>, <<1958, 1968>>, <<2027, 2037>>,
      <<2042, 2042>>, <<2045, 2045>>, <<2070, 2093>>, <<2137, 2139>>, <<2184, 2184>>,
      <<2192, 2193>>, <<2200, 2207>>, <<2249, 2306>>, <<2362, 2362>>, <<2364, 2364>>,
      <<2369, 2376>>, <<2381, 2381>>, <<2385, 2391>>, <<2402, 2403>>, <<2417, 2417>>,
      <<2433, 2433>>, <<2492, 2492>>, <<2497, 2500>>, <<2509, 2509>>, <<2530, 2531>>,
      <<2558, 2558>>, <<2561, 2562>>, <<2620, 2620>>, <<2625, 2626>>, <<2631, 2632>>,
      <<2635, 2637>>, <<2641, 2641>>, <<2672, 2673>>, <<2677, 2677>>, <<2689, 2690>>,
      <<2748, 2748>>, <<2753, 2757>>, <<2759, 2760>>, <<2765, 2765>>, <<2786, 2787>>,
      <<2810, 2815>>, <<2817, 2817>>, <<2876, 2876>>, <<2879, 2879>>, <<2881, 2884>>,
      <<2893, 2893>>, <<2901, 2902>>, <<2914, 2915>>, <<2946, 2946>>, <<3008, 3008>>,
      <<3021, 3021>>, <<3072, 3072>>, <<3076, 3076>>, <<3132, 3132>>, <<3134, 3136>>,
      <<3142, 3144>>, <<3146, 3149>>, <<3157, 3158>>, <<3170, 3171>>, <<3201, 3201>>,
      <<3260, 3260>>, <<3263, 3263>>, <<3270, 3270>>, <<3276, 3277>>, <<3298, 3299>>,
      <<3328, 3329>>, <<3387, 3388>>, <<3393, 3396>>, <<3405, 3405>>, <<3426, 3427>>,
      <<3457, 3457>>, <<3530, 3530>>, <<3538, 3540>>, <<3542, 3542>>, <<3633, 3633>>,
      <<3636, 3642>>, <<3654, 3662>>, <<3761, 3761>>, <<3764, 3772>>, <<3782, 3782>>,
      <<3784, 3789>>, <<3864, 3865>>, <<3893, 3893>>, <<3895, 3895>>, <<3897, 3897>>,
      <<3953, 3966>>, <<3968, 3972>>, <<3974, 3975>>, <<3981, 3991>>, <<3993, 4028>>,
      <<4038, 4038>>, <<4141, 4144>>, <<4146, 4151>>, <<4153, 4154>>, <<4157, 4158>>,
      <<4184, 4185>>, <<4190, 4192>>, <<4209, 4212>>, <<4226, 4226>>, <<4229, 4230>>,
      <<4237, 4237>>, <<4253, 4253>>, <<4348, 4348>>, <<4957, 4959>>, <<5906, 5908>>,
      <<5938, 5939>>, <<5970, 5971>>, <<6002, 6003>>, <<6068, 6069>>, <<6071, 6077>>,
      <<6086, 6086>>, <<6089, 6099>>, <<6103, 6103>>, <<6109, 6109>>, <<6155, 6159>>,
      <<6211, 6211>>, <<6277, 6278>>, <<6313, 6313>>, <<6432, 6434>>, <<6439, 6440>>,
      <<6450, 6450>>, <<6457, 6459>>, <<6679, 6680>>, <<6683, 6683>>, <<6742, 6742>>,
      <<6744, 6750>>, <<6752, 6752>>, <<6754, 6754>>, <<6757, 6764>>, <<6771, 6780>>,
      <<6783, 6783>>, <<6823, 6823>>, <<6832, 6862>>, <<6912, 6915>>, <<6964, 6964>>,
      <<6966, 6970>>, <<6972, 6972>>, <<6978, 6978>>, <<7019, 7027>>, <<7040, 7041>>,
      <<7074, 7077>>, <<7080, 7081>>, <<7083, 7085>>, <<7142, 7142>>, <<7144, 7145>>,
      <<7149, 7149>>, <<7151, 7153>>, <<7212, 7219>>, <<7222, 7223>>, <<7288, 7293>>,
      <<7376, 7378>>, <<7380, 7392>>, <<7394, 7400>>, <<7405, 7405>>, <<7412, 7412>>,
      <<7416, 7417>>, <<7468, 7530>>, <<7544, 7544>>, <<7579, 7679>>, <<8125, 8125>>,
      <<8127, 8129>>, <<8141, 8143>>, <<8157, 8159>>, <<8173, 8175>>, <<8189, 8190>>,
      <<8203, 8207>>, <<8216, 8217>>, <<8228, 8228>>, <<8231, 8231>>, <<8234, 8238>>,
      <<8288, 8292>>, <<8294, 8303>>, <<8305, 8305>>, <<8319, 8319>>, <<8336, 8348>>,
      <<8400, 8432>>, <<11388, 11389>>, <<11503, 11505>>, <<11631, 11631>>, <<11647,
      11647>>, <<11744, 11775>>, <<11823, 11823>>, <<12293, 12293>>, <<12330, 12333>>,
      <<12337, 12341>>, <<12347, 12347>>, <<12441, 12446>>, <<12540, 12542>>, <<40981,
      40981>>, <<42232, 42237>>, <<42508, 42508>>, <<42607, 42610>>, <<42612, 42621>>,
      <<42623, 42623>>, <<42652, 42655>>, <<42736, 42737>>, <<42752, 42785>>, <<42864,
      42864>>, <<42888, 42890>>, <<42994, 42996>>, <<43000, 43001>>, <<43010, 43010>>,
      <<43014, 43014>>, <<43019, 43019>>, <<43045, 43046>>, <<43052, 43052>>, <<43204,
      43205>>, <<43232, 43249>>, <<43263, 43263>>, <<43302, 43309>>, <<43335, 43345>>,
      <<43392, 43394>>, <<43443, 43443>>, <<43446, 43449>>, <<43452, 43453>>, <<43471,
      43471>>, <<43493, 43494>>, <<43561, 43566>>, <<43569, 43570>>, <<43573, 43574>>,
      <<43587, 43587>>, <<43596, 43596>>, <<43632, 43632>>, <<43644, 43644>>, <<43696,
      43696>>, <<43698, 43700>>, <<43703, 43704>>, <<43710, 43711>>, <<43713, 43713>>,
      <<43741, 43741>>, <<43756, 43757>>, <<43763, 43764>>, <<43766, 43766>>, <<43867,
      43871>>, <<43881, 43883>>, <<44005, 44005>>, <<44008, 44008>>, <<44013, 44013>>,
      <<64286, 64286>>, <<64434, 64450>>, <<65024, 65039>>, <<65043, 65043>>, <<65056,
      65071>>, <<65106, 65106>>, <<65109, 65109>>, <<65279, 65279>>, <<65287, 65287>>,
      <<65294, 65294>>, <<65306, 65306>>, <<65342, 65342>>, <<65344, 65344>>, <<65392,
      65392>>, <<65438, 65439>>, <<65507, 65507>>, <<65529, 65531>>, <<66045, 66045>>,
      <<66272, 66272>>, <<66422, 66426>>, <<67456, 67461>>, <<67463, 67504>>, <<67506,
      67514>>, <<68097, 68099>>, <<68101, 68102>>, <<68108, 68111>>, <<68152, 68154>>,
      <<68159, 68159>>, <<68325, 68326>>, <<68900, 68903>>, <<69291, 69292>>, <<69446,
      69456>>, <<69506, 69509>>, <<69633, 69633>>, <<69688, 69702>>, <<69744, 69744>>,
      <<69747, 69748>>, <<69759, 69761>>, <<69811, 69814>>, <<69817, 69818>>, <<69821,
      69821>>, <<69826, 69826>>, <<69837, 69837>>, <<69888, 69890>>, <<69927, 69931>>,
      <<69933, 69940>>, <<70003, 70003>>, <<70016, 70017>>, <<70070, 70078>>, <<70089,
      70092>>, <<70095, 70095>>, <<70191, 70193>>, <<70196, 70196>>, <<70198, 70199>>,
      <<70206, 70206>>, <<70367, 70367>>, <<70371, 70378>>, <<70400, 70401>>, <<70459,
      70460>>, <<70464, 70464>>, <<70502, 70508>>, <<70512, 70516>>, <<70712, 70719>>,
      <<70722, 70724>>, <<70726, 70726>>, <<70750, 70750>>, <<70835, 70840>>, <<70842,
      70842>>, <<70847, 70848>>, <<70850, 70851>>, <<71090, 71093>>, <<71100, 71101>>,
      <<71103, 71104>>, <<71132, 71133>>, <<71219, 71226>>, <<71229, 71229>>, <<71231,
      71232>>, <<71339, 71339>>, <<71341, 71341>>, <<71344, 71349>>, <<71351, 71351>>,
      <<71453, 71455>>, <<71458, 71461>>, <<71463, 71467>>, <<71727, 71735>>, <<71737,
      71738>>, <<71995, 71996>>, <<71998, 71998>>, <<72003, 72003>>, <<72148, 72151>>,
      <<72154, 72155>>, <<72160, 72160>>, <<72193, 72202>>, <<72243, 72248>>, <<72251,
      72254>>, <<72263, 72263>>, <<72273, 72278>>, <<72281, 72283>>, <<72330, 72342>>,
      <<72344, 72345>>, <<72752, 72758>>, <<72760, 72765>>, <<72767, 72767>>, <<72850,
      72871>>, <<72874, 72880>>, <<72882, 72883>>, <<72885, 72886>>, <<73009, 73014>>,
      <<73018, 73018>>, <<73020, 73021>>, <<73023, 73029>>, <<73031, 73031>>, <<73104,
      73105>>, <<73109, 73109>>, <<73111, 73111>>, <<73459, 73460>>, <<78896, 78904>>,
      <<92912, 92916>>, <<92976, 92982>>, <<92992, 92995>>, <<94031, 94031>>, <<94095,
      94111>>, <<94176, 94177>>, <<94179, 94180>>, <<110576, 110579>>, <<110581, 110587>>,
      <<110589, 110590>>, <<113821, 113822>>, <<113824, 113827>>, <<118528, 118573>>,
      <<118576, 118598>>, <<119143, 119145>>, <<119155, 119170>>, <<119173, 119179>>,
      <<119210, 119213>>, <<119362, 119364>>, <<121344, 121398>>, <<121403, 121452>>,
      <<121461, 121461>>, <<121476, 121476>>, <<121499, 121503>>, <<121505, 121519>>,
      <<122880, 122886>>, <<122888, 122904>>, <<122907, 122913>>, <<122915, 122916>>,
      <<122918, 122922>>, <<123184, 123197>>, <<123566, 123566>>, <<123628, 123631>>,
      <<125136, 125142>>, <<125252, 125259>>, <<127995, 127999>>, <<917505, 917505>>,
      <<917536, 917631>>, <<917760, 917999>> }

InRanges(c, ranges) == \E r \in ranges : r[1] <= c /\ c <= r[2]

IsCased(c) == InRanges(c, CasedRanges)

IsCaseIgnorable(c) == InRanges(c, CaseIgnorableRanges)

\* the lower-case mapping of one character that has a one-character mapping
LowerChar(c) ==
    IF c < 128 THEN (IF c >= 65 /\ c <= 90 THEN c + 32 ELSE c)
    ELSE LET hits == { r \in LowerRuns :
                         r[1] <= c /\ c <= r[2] /\ (c - r[1]) % r[3] = 0 }
         IN  IF hits = {} THEN c ELSE c + (CHOOSE r \in hits : TRUE)[4]

\* capital sigma at s[i] is final: the nearest character before it that is not
\* case-ignorable is cased, and the nearest such character after it, if any, is not
FinalSigma(s, i) ==
    LET before == { j \in 1..(i - 1) : ~IsCaseIgnorable(s[j]) }
        after  == { k \in (i + 1)..Len(s) : ~IsCaseIgnorable(s[k]) }
    IN  /\ before # {}
        /\ IsCased(s[CHOOSE j \in before : \A x \in before : x <= j])
        /\ \/ after = {}
           \/ ~IsCased(s[CHOOSE k \in after : \A x \in after : k <= x])

\* what s[i] becomes: U+0130 becomes two characters, capital sigma depends on
\* its place in the word
LowerAt(s, i) ==
    IF s[i] = 304 THEN << 105, 775 >>
    ELSE IF s[i] = 931 THEN (IF FinalSigma(s, i) THEN << 962 >> ELSE << 963 >>)
    ELSE << LowerChar(s[i]) >>

RECURSIVE LowerFrom(_, _)
LowerFrom(s, i) == IF i > Len(s) THEN << >> ELSE LowerAt(s, i) \o LowerFrom(s, i + 1)

\* s.lower()
Lower(s) == LowerFrom(s, 1)

\* "".join(parts)
RECURSIVE Join(_)
Join(parts) == IF parts = << >> THEN << >> ELSE Head(parts) \o Join(Tail(parts))

\* SelectorList.get(default=d): the first match, or d when nothing matches
Get(nodes, d) == IF nodes = << >> THEN d ELSE nodes[1]

\* x.strip() where x may be None: None has no strip, the call raises
StripOf(x) == IF x = None THEN Raised ELSE Strip(x)

(***************************************************************************)
(* parse_company (lines 31-50).  A document is the node lists its path     *)
(* expressions select: days is the list of day-of-the-week <p> nodes, each *)
(* with the text nodes of its label (text()) and of its value cell         *)
(* (../following-sibling::td//p/text()); claim, name, website, phone,      *)
(* address and logo are the matches of the other expressions.              *)
(***************************************************************************)
\* xpath = lambda xp: result.selector.xpath(xp).get(default="").strip()
Xpath(nodes) == Strip(Get(nodes, << >>))

\* faulty variant: the key is the label as found, not lower-cased
HoursKeyAsFound(name) == name

\* open_hours[name.lower()] = value : the key
HoursKey(name) == Lower(name)

\* open_hours with key k set to v
SetItem(oh, k, v) == [x \in (DOMAIN oh) \cup {k} |-> IF x = k THEN v ELSE oh[x]]

\* the for loop of lines 34-37 from row i on; a row whose label or value has
\* no text node makes .get() return None and .strip() raise
RECURSIVE OpenHoursFrom(_, _, _)
OpenHoursFrom(days, i, oh) ==
    IF i > Len(days) THEN [raised |-> FALSE, open_hours |-> oh]
    ELSE LET name  == StripOf(Get(days[i].label, None))
             value == StripOf(Get(days[i].value, None))
         IN  IF name = Raised \/ value = Raised
             THEN [raised |-> TRUE, open_hours |-> << >>]
             ELSE OpenHoursFrom(days, i + 1, SetItem(oh, HoursKey(name), value))

\* faulty variant: .get() in place of "".join(...getall()): None when nothing matches
ClaimStatusFirstMatch(d) == Get(d.claim, None)

\* lines 39-41: "".join(xpath(...).getall()).strip().lower()
ClaimStatus(d) == Lower(Strip(Join(d.claim)))

NoCompany ==
    [name |-> << >>, website |-> << >>, phone |-> << >>, address |-> << >>,
     logo |-> << >>, open_hours |-> << >>, claim_status |-> << >>]

parse_company(d) ==
    LET hours == OpenHoursFrom(d.days, 1, << >>)
    IN  IF hours.raised THEN [raised |-> TRUE, company |-> NoCompany]
        ELSE [raised |-> FALSE,
              company |-> [name         |-> Xpath(d.name),
                           website      |-> Xpath(d.website),
                           phone        |-> Xpath(d.phone),
                           address      |-> Xpath(d.address),
                           logo         |-> Xpath(d.logo),
                           open_hours   |-> hours.open_hours,
                           claim_status |-> ClaimStatus(d)]]

(***************************************************************************)
(* Business documents the model draws from.                                *)
(***************************************************************************)
\* label text nodes: none, "Mon", " Tue\n", "mon", "Xmas", "  ",
\* "\xa0Mon\u2003" (no-break and em space), "S\xc1B" (capital A acute)
LabelNodes ==
    { << >>, << <<77, 111, 110>> >>, << <<32, 84, 117, 101, 10>> >>,
      << <<109, 111, 110>> >>, << <<88, 109, 97, 115>> >>, << <<32, 32>> >>,
      << <<160, 77, 111, 110, 8195>> >>, << <<83, 193, 66>> >> }

\* value text nodes: none, " 9-5 "
ValueNodes == { << >>, << <<32, 57, 45, 53, 32>> >> }

DayRows == [label : LabelNodes, value : ValueNodes]

RECURSIVE SeqsUpTo(_, _)
SeqsUpTo(S, n) ==
    IF n = 0 THEN { << >> }
    ELSE LET shorter == SeqsUpTo(S, n - 1)
         IN  shorter \cup { Append(s, x) : s \in shorter, x \in S }

\* claim-text nodes: none, " Claimed\n", "Un" + "claimed ",
\* "\xa0\u0130\u039f\u03a3" (no-break space, dotted capital I, omicron, sigma)
ClaimNodes ==
    { << >>, << <<32, 67, 108, 97, 105, 109, 101, 100, 10>> >>,
      << <<85, 110>>, <<99, 108, 97, 105, 109, 101, 100, 32>> >>,
      << <<160, 304, 927, 931>> >> }

\* matches of a single-valued field: none, " Bar ", "\xa0Bar\x85"
FieldNodes == { << >>, << <<32, 66, 97, 114, 32>> >>, << <<160, 66, 97, 114, 133>> >> }

CompanyDocs ==
    [days : SeqsUpTo(DayRows, MaxRows), claim : ClaimNodes, name : FieldNodes,
     website : {<< >>}, phone : {<< >>}, address : FieldNodes, logo : {<< >>}]

NoDoc ==
    [days |-> << >>, claim |-> << >>, name |-> << >>, website |-> << >>,
     phone |-> << >>, address |-> << >>, logo |-> << >>]

NotParsed == [raised |-> FALSE, company |-> NoCompany]


(***************************************************************************)
(* parse_search (lines 9-18).  A search response is the list under         *)
(* searchPageProps.mainContentComponentsListProps; each item carries what  *)
(* the code reads: type; whether searchResultBusiness is truthy (business), *)
(* whether it has a businessUrl (has_url) and that url; whether            *)
(* adLoggingInfo is truthy (ad); props.totalResults.                       *)
(*                                                                         *)
(* A url reference is kept as urlparse splits it: scheme, netloc, path     *)
(* (its segments, path.split("/")), params, query and fragment.            *)
(***************************************************************************)
UrlRef(scheme, netloc, path) ==
    [scheme |-> scheme, netloc |-> netloc, path |-> path,
     params |-> "", query |-> "", fragment |-> ""]

\* the empty reference ""
NoRef == UrlRef("", "", << "" >>)

Biz(u) ==
    [type |-> "business", business |-> TRUE, has_url |-> TRUE, url |-> u,
     ad |-> FALSE, totalResults |-> 0]

\* a searchResultBusiness without businessUrl
BizNoUrl ==
    [type |-> "business", business |-> TRUE, has_url |-> FALSE, url |-> NoRef,
     ad |-> FALSE, totalResults |-> 0]

Ad(u) ==
    [type |-> "business", business |-> TRUE, has_url |-> TRUE, url |-> u,
     ad |-> TRUE, totalResults |-> 0]

Separator ==
    [type |-> "separator", business |-> FALSE, has_url |-> FALSE, url |-> NoRef,
     ad |-> FALSE, totalResults |-> 0]

Pagination(T) ==
    [type |-> "pagination", business |-> FALSE, has_url |-> FALSE, url |-> NoRef,
     ad |-> FALSE, totalResults |-> T]

\* r.get("searchResultBusiness") and not r.get("adLoggingInfo")
IsBusiness(r) == r.business /\ ~r.ad

HasPagination(items) == \E i \in 1..Len(items) : items[i].type = "pagination"

\* next(r for r in results if r.get("type") == "pagination")
FirstPagination(items) ==
    items[CHOOSE i \in 1..Len(items) :
            /\ items[i].type = "pagination"
            /\ \A j \in 1..(i - 1) : items[j].type # "pagination"]

\* faulty variant: next(..., default) in place of next(...): no pagination item, no failure
parse_search_default(items) ==
    [raised       |-> FALSE,
     businesses   |-> SelectSeq(items, IsBusiness),
     totalResults |-> IF HasPagination(items)
                      THEN FirstPagination(items).totalResults ELSE 0]

\* next() on an exhausted generator raises StopIteration
parse_search(items) ==
    IF HasPagination(items)
    THEN [raised       |-> FALSE,
          businesses   |-> SelectSeq(items, IsBusiness),
          totalResults |-> FirstPagination(items).totalResults]
    ELSE [raised |-> TRUE, businesses |-> << >>, totalResults |-> 0]

(***************************************************************************)
(* Pagination (lines 72 and 117-122) and the merge (lines 74 and 125).     *)
(***************************************************************************)
\* list(range(start, stop, step)), step > 0
PyRange(start, stop, step) ==
    LET n == IF stop > start THEN (stop - start + step - 1) \div step ELSE 0
    IN  [i \in 1..n |-> start + (i - 1) * step]

\* faulty variant: the review call site's upper bound at the search call site
SearchOffsetsUnified(T) == PyRange(10, T + 10, 10)

\* faulty variant: the first subsequent page is skipped
SearchOffsetsFrom20(T) == PyRange(20, T, 10)

\* faulty variant: the upper bound is included and a page past it is taken
SearchOffsetsInclusive(T) == PyRange(10, T + 11, 10)

\* line 72: range(10, search_meta["totalResults"], 10)
SearchOffsets(T) == PyRange(10, T, 10)

\* faulty variant: the upper bound T + 10 is included
ReviewOffsetsInclusive(T) == PyRange(10, T + 11, 10)

\* faulty variant: the search call site's upper bound at the review call site
ReviewOffsetsUnified(T) == PyRange(10, T, 10)

\* line 121: range(10, total_reviews + 10, 10)
ReviewOffsets(T) == PyRange(10, T + 10, 10)

\* faulty variant: a page's records go in front of the list
ExtendInFront(list, items) == items \o list

\* list.extend(items)
Extend(list, items) == list \o items

\* urlunparse writes a "/" before a non-empty path that does not start with one
LeadingSlash(path) == IF path[1] # "" THEN << "" >> \o path ELSE path

\* urljoin: ".." removes the segment before it, "." is dropped
RECURSIVE ResolveDots(_, _)
ResolveDots(segments, resolved) ==
    IF segments = << >> THEN resolved
    ELSE LET seg == Head(segments)
         IN  ResolveDots(Tail(segments),
                 IF seg = ".."
                 THEN (IF resolved = << >> THEN resolved
                       ELSE SubSeq(resolved, 1, Len(resolved) - 1))
                 ELSE IF seg = "." THEN resolved
                 ELSE Append(resolved, seg))

NonEmpty(seg) == seg # ""

\* segments[1:-1] = filter(None, segments[1:-1]), on two segments or more
DropInnerEmpty(segments) ==
    << Head(segments) >>
        \o SelectSeq(SubSeq(segments, 2, Len(segments) - 1), NonEmpty)
        \o << segments[Len(segments)] >>

\* urljoin("https://www.yelp.com", u): the parts of the resulting url
UrlJoin(u) ==
    IF u.scheme \notin {"", "https"} THEN u
    ELSE IF u.netloc # "" THEN [u EXCEPT !.scheme = "https", !.path = LeadingSlash(u.path)]
    ELSE IF u.path = << "" >> /\ u.params = ""
    THEN [scheme |-> "https", netloc |-> "www.yelp.com", path |-> << "" >>,
          params |-> "", query |-> u.query, fragment |-> u.fragment]
    ELSE LET segments == IF Len(u.path) > 1 /\ u.path[1] = "" THEN u.path
                         ELSE DropInnerEmpty(<< "" >> \o u.path)
             resolved == ResolveDots(segments, << >>)
             closed   == IF segments[Len(segments)] \in {".", ".."}
                         THEN Append(resolved, "") ELSE resolved
             path     == IF closed \in { << >>, << "" >> } THEN << "", "" >> ELSE closed
         IN  [scheme |-> "https", netloc |-> "www.yelp.com", path |-> LeadingSlash(path),
              params |-> u.params, query |-> u.query, fragment |-> u.fragment]

\* lines 89-95; company_preview["searchResultBusiness"]["businessUrl"] raises
\* KeyError when the key is absent
CompanyUrls(previews) ==
    IF \E i \in 1..Len(previews) : ~previews[i].has_url
    THEN [raised |-> TRUE, urls |-> << >>]
    ELSE [raised |-> FALSE, urls |-> [i \in 1..Len(previews) |-> UrlJoin(previews[i].url)]]

(***************************************************************************)
(* What the Fetch Client may answer.                                       *)
(***************************************************************************)
Totals == 0..MaxTotal

\* "/biz/a"
BizA == Biz(UrlRef("", "", << "", "biz", "a" >>))
\* "/biz/b"
BizB == Biz(UrlRef("", "", << "", "biz", "b" >>))
\* "biz/x/../a": the same page as "/biz/a"
BizARelative == Biz(UrlRef("", "", << "biz", "x", "..", "a" >>))
\* "//other.example/biz/a"
BizElsewhere == Biz(UrlRef("", "other.example", << "", "biz", "a" >>))
\* businessUrl ""
BizEmptyUrl == Biz(NoRef)
\* an ad for "/biz/c"
AdC == Ad(UrlRef("", "", << "", "biz", "c" >>))

SearchBodies ==
    { << >>,
      << BizA >>,
      << BizB, AdC, Separator, BizARelative >>,
      << BizEmptyUrl, BizElsewhere >>,
      << BizNoUrl >> }

\* a fetch that failed
FetchFailed == [failed |-> TRUE, items |-> << >>]

SearchFirstResponses ==
    {FetchFailed}
    \cup { [failed |-> FALSE, items |-> b] : b \in SearchBodies }
    \cup { [failed |-> FALSE, items |-> Append(b, Pagination(T))] :
             b \in SearchBodies, T \in Totals }

SearchNextResponses ==
    {FetchFailed}
    \cup { [failed |-> FALSE, items |-> b] : b \in SearchBodies }
    \cup { [failed |-> FALSE, items |-> Append(b, Pagination(MaxTotal))] :
             b \in SearchBodies }

ReviewBodies == { << >>, << "r1" >>, << "r2", "r1" >> }

ReviewFailed == [failed |-> TRUE, has_pagination |-> FALSE, reviews |-> << >>, totalResults |-> 0]

ReviewFirstResponses ==
    {ReviewFailed}
    \cup { [failed |-> FALSE, has_pagination |-> FALSE, reviews |-> b, totalResults |-> 0] :
             b \in ReviewBodies }
    \cup { [failed |-> FALSE, has_pagination |-> TRUE, reviews |-> b, totalResults |-> T] :
             b \in ReviewBodies, T \in Totals }

ReviewNextResponses ==
    {ReviewFailed}
    \cup { [failed |-> FALSE, has_pagination |-> TRUE, reviews |-> b, totalResults |-> MaxTotal] :
             b \in ReviewBodies }

\* " Bar ", claimed, open Mon
GoodDoc ==
    [days    |-> << [label |-> << <<77, 111, 110>> >>, value |-> << <<32, 57, 45, 53, 32>> >>] >>,
     claim   |-> << <<32, 67, 108, 97, 105, 109, 101, 100, 10>> >>,
     name    |-> << <<32, 66, 97, 114, 32>> >>,
     website |-> << >>, phone |-> << >>, address |-> << >>, logo |-> << >>]

\* a day-of-the-week node without text
TextlessDayDoc ==
    [days    |-> << [label |-> << >>, value |-> << <<32, 57, 45, 53, 32>> >>] >>,
     claim   |-> << >>,
     name    |-> << <<32, 66, 97, 114, 32>> >>,
     website |-> << >>, phone |-> << >>, address |-> << >>, logo |-> << >>]

DetailResponses ==
    { [failed |-> TRUE, doc |-> NoDoc] }
    \cup { [failed |-> FALSE, doc |-> d] : d \in {GoodDoc, TextlessDayDoc} }

NoFault == [kind |-> "none", at |-> "none"]

(***************************************************************************)
(* Initial states: one per entry point (and per document for               *)
(* parse_company).                                                         *)
(***************************************************************************)
InitCommon ==
    /\ total = -1
    /\ first_recs = << >>
    /\ other_urls = << >>
    /\ to_scrape = << >>
    /\ pending = {}
    /\ yielded = << >>
    /\ businesses = << >>
    /\ reviews = << >>
    /\ business_id = "unset"
    /\ company_urls = << >>
    /\ results = << >>
    /\ printed = << >>
    /\ fetch_log = << >>
    /\ fault = NoFault
    /\ parsed = NotParsed

Init ==
    /\ InitCommon
    /\ op \in {"run", "scrape_reviews"}
    /\ pc = op
    /\ doc = NoDoc

InitCompany ==
    /\ InitCommon
    /\ op = "parse_company"
    /\ pc = "parse_company"
    /\ doc \in CompanyDocs

Request(kind, arg) == [kind |-> kind, arg |-> arg]

\* the requests of a batch, in the order of the list given to concurrent_scrape
Batch(kind, args) == [i \in 1..Len(args) |-> Request(kind, args[i])]

(***************************************************************************)
(* search_yelp, scrape_companies_by_search, run.  Each action is the code  *)
(* between two suspension points (an await, or one step of an async for).  *)
(* A failure is not caught anywhere (there is no try in the file): it ends *)
(* the entry point, pc = "error".  A failed fetch of a batch reaches the   *)
(* loop body either as an exception raised by the iteration or as an error *)
(* object without .content / .selector; both raise at that step.           *)
(***************************************************************************)
Fault(kind) == IF fault = NoFault THEN [kind |-> kind, at |-> pc] ELSE fault

\* lines 129-132, 88, 69: run calls down to search_yelp, which hands the request
\* of the first page to the client and awaits the answer
SearchStart ==
    /\ pc = "run"
    /\ pc' = "search_first"
    /\ fetch_log' = Append(fetch_log, Request("search", 0))
    /\ UNCHANGED << op, total, first_recs, other_urls, to_scrape, pending, yielded,
                    businesses, reviews, business_id, company_urls, results, printed,
                    fault, doc, parsed >>

\* lines 69-73: the first page is answered, then the batch of the other pages is
\* handed over
SearchFirst ==
    /\ pc = "search_first"
    /\ \E resp \in SearchFirstResponses :
         LET p == parse_search(resp.items)
             offsets == SearchOffsets(p.totalResults)
         IN  /\ fault' = IF resp.failed THEN Fault("fetch")
                         ELSE IF ~HasPagination(resp.items) THEN Fault("no_pagination")
                         ELSE fault
             /\ IF resp.failed \/ p.raised
                THEN /\ pc' = "error"
                     /\ UNCHANGED << total, first_recs, other_urls, pending, businesses,
                                     fetch_log >>
                ELSE /\ pc' = "search_pages"
                     /\ businesses' = p.businesses
                     /\ first_recs' = p.businesses
                     /\ total' = p.totalResults
                     /\ other_urls' = offsets
                     /\ pending' = 1..Len(offsets)
                     /\ fetch_log' = fetch_log \o Batch("search", offsets)
    /\ UNCHANGED << op, to_scrape, yielded, reviews, business_id, company_urls,
                    results, printed, doc, parsed >>

\* lines 73-74: concurrent_scrape yields one more page, in any order
SearchPage ==
    /\ pc = "search_pages"
    /\ \E i \in pending : \E resp \in SearchNextResponses :
         LET p == parse_search(resp.items)
         IN  /\ fault' = IF resp.failed THEN Fault("fetch")
                         ELSE IF ~HasPagination(resp.items) THEN Fault("no_pagination")
                         ELSE fault
             /\ pending' = pending \ {i}
             /\ IF resp.failed \/ p.raised
                THEN /\ pc' = "error"
                     /\ UNCHANGED << businesses, yielded >>
                ELSE /\ pc' = pc
                     /\ businesses' = Extend(businesses, p.businesses)
                     /\ yielded' = Append(yielded, [offset  |-> other_urls[i],
                                                    records |-> p.businesses])
    /\ UNCHANGED << op, total, first_recs, other_urls, to_scrape, reviews, business_id,
                    company_urls, results, printed, fetch_log, doc, parsed >>

\* lines 75, 88-96, 80-81: search_yelp returns, the detail urls are built (a
\* preview without businessUrl raises KeyError) and handed to concurrent_scrape
SearchReturn ==
    /\ pc = "search_pages"
    /\ pending = {}
    /\ LET joined == CompanyUrls(businesses)
       IN  IF joined.raised
           THEN /\ pc' = "error"
                /\ fault' = Fault("key_error")
                /\ UNCHANGED << company_urls, pending, fetch_log >>
           ELSE /\ pc' = "companies"
                /\ company_urls' = joined.urls
                /\ pending' = 1..Len(joined.urls)
                /\ fetch_log' = fetch_log
                                  \o Batch("company", [i \in 1..Len(joined.urls) |-> i])
                /\ UNCHANGED fault
    /\ UNCHANGED << op, total, first_recs, other_urls, to_scrape, yielded, businesses,
                    reviews, business_id, results, printed, doc, parsed >>

\* lines 81-82: one more business document is yielded and parsed
CompanyPage ==
    /\ pc = "companies"
    /\ \E i \in pending : \E resp \in DetailResponses :
         LET c == parse_company(resp.doc)
         IN  /\ pending' = pending \ {i}
             /\ fault' = IF resp.failed THEN Fault("fetch")
                         ELSE IF c.raised THEN Fault("parse_company")
                         ELSE fault
             /\ IF resp.failed \/ c.raised
                THEN /\ pc' = "error"
                     /\ UNCHANGED results
                ELSE /\ pc' = pc
                     /\ results' = Append(results, c.company)
    /\ UNCHANGED << op, total, first_recs, other_urls, to_scrape, yielded, businesses,
                    reviews, business_id, company_urls, printed, fetch_log, doc, parsed >>

\* lines 83, 96, 132-135: the results come back to run, which prints them
RunPrint ==
    /\ pc = "companies"
    /\ pending = {}
    /\ pc' = "done"
    /\ printed' = Append(printed, results)
    /\ UNCHANGED << op, total, first_recs, other_urls, to_scrape, pending, yielded,
                    businesses, reviews, business_id, company_urls, results,
                    fetch_log, fault, doc, parsed >>

(***************************************************************************)
(* scrape_reviews (lines 107-126).                                         *)
(***************************************************************************)
\* line 108: the request of the business page is handed to the client
ReviewsStart ==
    /\ pc = "scrape_reviews"
    /\ pc' = "reviews_business"
    /\ fetch_log' = Append(fetch_log, Request("business_page", 0))
    /\ UNCHANGED << op, total, first_recs, other_urls, to_scrape, pending, yielded,
                    businesses, reviews, business_id, company_urls, results, printed,
                    fault, doc, parsed >>

\* lines 108-112: the business page is answered, its yelp-biz-id meta tag is read
\* (None when absent) and the request of the first review page is handed over
ReviewsBusiness ==
    /\ pc = "reviews_business"
    /\ \E failed \in BOOLEAN : \E id \in {"biz-1", "None"} :
         IF failed
         THEN /\ pc' = "error"
              /\ fault' = Fault("fetch")
              /\ UNCHANGED << business_id, fetch_log >>
         ELSE /\ pc' = "reviews_first"
              /\ business_id' = id
              /\ fetch_log' = Append(fetch_log, Request("review", 0))
              /\ UNCHANGED fault
    /\ UNCHANGED << op, total, first_recs, other_urls, to_scrape, pending, yielded,
                    businesses, reviews, company_urls, results, printed, doc, parsed >>

\* lines 110-123: the first review page is answered; reviews is bound (line 114)
\* before the pagination record is read (line 115, KeyError when absent); the
\* total is printed (line 116) and the batch of the other pages is handed over
ReviewsFirst ==
    /\ pc = "reviews_first"
    /\ \E resp \in ReviewFirstResponses :
         LET offsets == ReviewOffsets(resp.totalResults)
         IN  /\ fault' = IF resp.failed THEN Fault("fetch")
                         ELSE IF ~resp.has_pagination THEN Fault("no_pagination")
                         ELSE fault
             /\ IF resp.failed
                THEN /\ pc' = "error"
                     /\ UNCHANGED << total, first_recs, to_scrape, pending, reviews,
                                     printed, fetch_log >>
                ELSE IF ~resp.has_pagination
                THEN /\ pc' = "error"
                     /\ reviews' = resp.reviews
                     /\ first_recs' = resp.reviews
                     /\ UNCHANGED << total, to_scrape, pending, printed, fetch_log >>
                ELSE /\ pc' = "reviews_pages"
                     /\ reviews' = resp.reviews
                     /\ first_recs' = resp.reviews
                     /\ total' = resp.totalResults
                     /\ printed' = Append(printed, [scraping |-> resp.totalResults,
                                                    business |-> business_id])
                     /\ to_scrape' = offsets
                     /\ pending' = 1..Len(offsets)
                     /\ fetch_log' = fetch_log \o Batch("review", offsets)
    /\ UNCHANGED << op, other_urls, yielded, businesses, business_id, company_urls,
                    results, doc, parsed >>

\* lines 123-125: concurrent_scrape yields one more review page, in any order
ReviewsPage ==
    /\ pc = "reviews_pages"
    /\ \E i \in pending : \E resp \in ReviewNextResponses :
         /\ pending' = pending \ {i}
         /\ IF resp.failed
            THEN /\ pc' = "error"
                 /\ fault' = Fault("fetch")
                 /\ UNCHANGED << reviews, yielded >>
            ELSE /\ pc' = pc
                 /\ reviews' = Extend(reviews, resp.reviews)
                 /\ yielded' = Append(yielded, [offset  |-> to_scrape[i],
                                                records |-> resp.reviews])
                 /\ UNCHANGED fault
    /\ UNCHANGED << op, total, first_recs, other_urls, to_scrape, businesses,
                    business_id, company_urls, results, printed, fetch_log, doc, parsed >>

\* line 126
ReviewsReturn ==
    /\ pc = "reviews_pages"
    /\ pending = {}
    /\ pc' = "done"
    /\ UNCHANGED << op, total, first_recs, other_urls, to_scrape, pending, yielded,
                    businesses, reviews, business_id, company_urls, results, printed,
                    fetch_log, fault, doc, parsed >>

(***************************************************************************)
(* parse_company applied to one document.                                  *)
(***************************************************************************)
ParseCompany ==
    /\ pc = "parse_company"
    /\ parsed' = parse_company(doc)
    /\ pc' = IF parsed'.raised THEN "error" ELSE "done"
    /\ UNCHANGED << op, total, first_recs, other_urls, to_scrape, pending, yielded,
                    businesses, reviews, business_id, company_urls, results, printed,
                    fetch_log, fault, doc >>

Next ==
    \/ SearchStart
    \/ SearchFirst
    \/ SearchPage
    \/ SearchReturn
    \/ CompanyPage
    \/ RunPrint
    \/ ReviewsStart
    \/ ReviewsBusiness
    \/ ReviewsFirst
    \/ ReviewsPage
    \/ ReviewsReturn

Spec == Init /\ [][Next]_vars

NextCompany == ParseCompany

SpecCompany == InitCompany /\ [][NextCompany]_vars

(***************************************************************************)
(* Properties.                                                             *)
(***************************************************************************)
StrictlyIncreasing(s) == \A j, k \in 1..Len(s) : j < k => s[j] < s[k]

Elements(s) == { s[j] : j \in 1..Len(s) }

\* the requests of the given kind in fetch_log, first page excluded, in order
RECURSIVE LaterRequests(_, _)
LaterRequests(log, kind) ==
    IF log = << >> THEN << >>
    ELSE IF Head(log).kind = kind /\ Head(log).arg # 0
         THEN << Head(log).arg >> \o LaterRequests(Tail(log), kind)
         ELSE LaterRequests(Tail(log), kind)

\* C1: once the first search page has reported T >= 0, the offsets search_yelp
\* requests after it are exactly the multiples of 10 in [10, T), each once and in
\* strictly increasing request order; for T = 25 they are [10, 20].
C1_SearchOffsetsBelowTotal ==
    (op = "run" /\ total >= 0) =>
        /\ LaterRequests(fetch_log, "search") = other_urls
        /\ StrictlyIncreasing(other_urls)
        /\ Elements(other_urls) = { k \in 10..(total - 1) : k % 10 = 0 }
        /\ (total = 25 => other_urls = << 10, 20 >>)

C1_Witness ==
    /\ op = "run"
    /\ total = 25
    /\ LaterRequests(fetch_log, "search") = << 10, 20 >>

\* C2 as stated: the offsets scrape_reviews requests after the first page are
\* every multiple of 10 k with 10 <= k <= T + 10, in increasing order.
C2_ReviewOffsetsInclusive ==
    (op = "scrape_reviews" /\ total >= 0) =>
        /\ LaterRequests(fetch_log, "review") = to_scrape
        /\ StrictlyIncreasing(to_scrape)
        /\ Elements(to_scrape) = { k \in 10..(total + 10) : k % 10 = 0 }

\* C2 amended: the offsets scrape_reviews requests after the first page are
\* every multiple of 10 k with 10 <= k < T + 10 (T + 10 itself excluded), each
\* once and in strictly increasing request order; for T = 25 they are [10, 20, 30].
C2_ReviewOffsetsBelowTotalPlus10 ==
    (op = "scrape_reviews" /\ total >= 0) =>
        /\ LaterRequests(fetch_log, "review") = to_scrape
        /\ StrictlyIncreasing(to_scrape)
        /\ Elements(to_scrape) = { k \in 10..(total + 9) : k % 10 = 0 }
        /\ (total = 25 => to_scrape = << 10, 20, 30 >>)

C2_Witness ==
    /\ op = "scrape_reviews"
    /\ total = 20
    /\ LaterRequests(fetch_log, "review") = << 10, 20 >>

\* C3: when the first page reports totalResults = 0, at both call sites the batch
\* is empty, no subsequent page is requested or yielded, and the list returned is
\* exactly the first page's records.
C3_ZeroTotalNoFurtherFetch ==
    total = 0 =>
        /\ other_urls = << >>
        /\ to_scrape = << >>
        /\ yielded = << >>
        /\ LaterRequests(fetch_log, "search") = << >>
        /\ LaterRequests(fetch_log, "review") = << >>
        /\ (op = "run" => businesses = first_recs)
        /\ (op = "scrape_reviews" => reviews = first_recs)

C3_Witness ==
    /\ total = 0
    /\ pc = "done"
    /\ op = "scrape_reviews"
    /\ reviews = << "r2", "r1" >>

RECURSIVE FlattenRecords(_)
FlattenRecords(pages) ==
    IF pages = << >> THEN << >>
    ELSE Head(pages).records \o FlattenRecords(Tail(pages))

\* C4: whatever the order in which the subsequent pages are yielded, the list is
\* the first page's records followed by each yielded page's records, page by page
\* in completion order (nothing dropped, added or deduplicated), and each page of
\* the batch is yielded at most once.
C4_MergeInCompletionOrder ==
    total >= 0 =>
        /\ (op = "run" => businesses = first_recs \o FlattenRecords(yielded))
        /\ (op = "scrape_reviews" => reviews = first_recs \o FlattenRecords(yielded))
        /\ \A j, k \in 1..Len(yielded) : j # k => yielded[j].offset # yielded[k].offset
        /\ \A j \in 1..Len(yielded) :
             yielded[j].offset \in Elements(other_urls) \cup Elements(to_scrape)

C4_Witness ==
    /\ op = "run"
    /\ pc = "done"
    /\ Len(yielded) = 2
    /\ yielded[1].offset = 20
    /\ yielded[1].records = << BizB, BizARelative >>
    /\ yielded[2].records = << BizA >>
    /\ first_recs = << BizA >>

\* C5 as stated: parse_company returns a record for every document and never
\* fails, also when a day label has no text or no value node follows it.
C5_ParseCompanyNeverFails ==
    (op = "parse_company" /\ pc # "parse_company") => (pc = "done" /\ ~parsed.raised)

\* C6: for a document without a claim-text node, the expression of lines 39-41
\* evaluates to the empty string (not None, not a failure), and the record that
\* parse_company returns has claim_status = "".
C6_NoClaimNodeEmptyStatus ==
    (op = "parse_company" /\ doc.claim = << >>) =>
        /\ ClaimStatus(doc) = << >>
        /\ (pc = "done" => parsed.company.claim_status = << >>)

C6_Witness ==
    /\ op = "parse_company"
    /\ pc = "done"
    /\ doc.claim = << >>
    /\ Len(doc.days) = 2
    /\ parsed.company.name = << 66, 97, 114 >>

\* mon .. sun and monday .. sunday
WeekdayNames ==
    { <<109, 111, 110>>, <<116, 117, 101>>, <<119, 101, 100>>, <<116, 104, 117>>,
      <<102, 114, 105>>, <<115, 97, 116>>, <<115, 117, 110>>,
      <<109, 111, 110, 100, 97, 121>>, <<116, 117, 101, 115, 100, 97, 121>>,
      <<119, 101, 100, 110, 101, 115, 100, 97, 121>>,
      <<116, 104, 117, 114, 115, 100, 97, 121>>, <<102, 114, 105, 100, 97, 121>>,
      <<115, 97, 116, 117, 114, 100, 97, 121>>, <<115, 117, 110, 100, 97, 121>> }

\* C7 as stated: whatever the rows, open_hours has at most 7 entries and every
\* key is a lower-cased weekday name.
C7_AtMostSevenWeekdayKeys ==
    (op = "parse_company" /\ pc = "done") =>
        /\ Cardinality(DOMAIN parsed.company.open_hours) <= 7
        /\ DOMAIN parsed.company.open_hours \subseteq WeekdayNames

\* C7 amended: the keys of open_hours are exactly the stripped, lower-cased label
\* texts of the rows (lower-casing a key again changes nothing), so the mapping
\* has at most one entry per row; the keys are weekday names when all the labels
\* are.
C7_KeysAreLowerCasedLabels ==
    (op = "parse_company" /\ pc = "done") =>
        LET oh == parsed.company.open_hours
            labels == { Strip(doc.days[i].label[1]) : i \in 1..Len(doc.days) }
        IN  /\ DOMAIN oh = { Lower(l) : l \in labels }
            /\ Cardinality(DOMAIN oh) <= Len(doc.days)
            /\ \A k \in DOMAIN oh : Lower(k) = k
            /\ ((\A l \in labels : Lower(l) \in WeekdayNames)
                    => DOMAIN oh \subseteq WeekdayNames)

C7_Witness ==
    /\ op = "parse_company"
    /\ pc = "done"
    /\ DOMAIN parsed.company.open_hours = { <<120, 109, 97, 115>>, <<116, 117, 101>> }

\* C8: in a run, once a fetch has failed or a search page (first or subsequent)
\* had no pagination record, the run is in the error state and nothing is printed;
\* when that happened during the search, no business-detail request is ever
\* issued and no company is parsed; no request is issued twice.
C8_FailurePropagates ==
    /\ (op = "run" /\ fault.kind \in {"fetch", "no_pagination"}) =>
           /\ pc = "error"
           /\ printed = << >>
           /\ (fault.at \in {"search_first", "search_pages"} =>
                  /\ company_urls = << >>
                  /\ results = << >>
                  /\ \A j \in 1..Len(fetch_log) : fetch_log[j].kind # "company")
    /\ \A j, k \in 1..Len(fetch_log) : j # k => fetch_log[j] # fetch_log[k]

C8_Witness ==
    /\ op = "run"
    /\ pc = "error"
    /\ fault = [kind |-> "no_pagination", at |-> "search_pages"]
    /\ Len(yielded) = 1
    /\ businesses # << >>

\* the requests whose window [o, o + 10) holds index i
Covering(i) ==
    { j \in 1..Len(fetch_log) :
        /\ fetch_log[j].kind \in {"search", "review"}
        /\ fetch_log[j].arg <= i
        /\ i < fetch_log[j].arg + 10 }

\* C9: at both call sites, every result index i with 0 <= i < T lies in the
\* window [o, o + 10) of exactly one requested page (first page included).
C9_WindowsCoverOnce ==
    total >= 0 => \A i \in 0..(total - 1) : Cardinality(Covering(i)) = 1

C9_Witness ==
    /\ op = "run"
    /\ total = 21
    /\ Len(fetch_log) >= 3
    /\ Cardinality(Covering(20)) = 1

\* pages needed after the first to cover the indices 10 .. T-1
PagesNeeded(T) == Cardinality({ k \in 10..(T - 1) : k % 10 = 0 })

\* C10: search_yelp never requests an offset >= T; scrape_reviews, for T >= 1,
\* requests exactly one offset >= T, hence one page more than needed to cover
\* the indices 10 .. T-1.
C10_ReviewsFetchOneExtraPage ==
    /\ (op = "run" /\ total >= 0) =>
           \A j \in 1..Len(other_urls) : other_urls[j] < total
    /\ (op = "scrape_reviews" /\ total >= 1) =>
           /\ Cardinality({ j \in 1..Len(to_scrape) : to_scrape[j] >= total }) = 1
           /\ Len(to_scrape) = PagesNeeded(total) + 1

C10_Witness ==
    /\ op = "scrape_reviews"
    /\ total = 10
    /\ to_scrape = << 10 >>
    /\ Len(yielded) = 1

====
